---- MODULE Spec2Model ----
(***************************************************************************)
(* Model of the documentation crawler (crawl_documentation.py): the crawl  *)
(* loop of crawl_documentation, the retry loop and response parsing of     *)
(* extract_next_link, and download_html, driven by an environment that     *)
(* chooses the outcome of every fetch and of every LLM call.               *)
(*                                                                         *)
(* Texts (URLs, LLM answers, error messages) are sequences of one-         *)
(* character strings, so that strip, upper, substring tests, urljoin and   *)
(* the path normalisation are computed as the code computes them.          *)
(***************************************************************************)
EXTENDS Integers, Sequences, FiniteSets, TLC

(***************************************************************************)
(* Text helpers: the Python str operations the crawler uses.               *)
(***************************************************************************)
LowerLetters ==
    << "a","b","c","d","e","f","g","h","i","j","k","l","m",
       "n","o","p","q","r","s","t","u","v","w","x","y","z" >>

UpperLetters ==
    << "A","B","C","D","E","F","G","H","I","J","K","L","M",
       "N","O","P","Q","R","S","T","U","V","W","X","Y","Z" >>

Whitespace == { " ", "\t", "\n", "\r" }

\* str.upper(), one character
UpperChar(c) ==
    IF \E i \in 1..26 : LowerLetters[i] = c
    THEN UpperLetters[CHOOSE i \in 1..26 : LowerLetters[i] = c]
    ELSE c

\* str.lower(), one character
LowerChar(c) ==
    IF \E i \in 1..26 : UpperLetters[i] = c
    THEN LowerLetters[CHOOSE i \in 1..26 : UpperLetters[i] = c]
    ELSE c

\* str.upper()
Upper(s) == [i \in 1..Len(s) |-> UpperChar(s[i])]

\* str.lower()
Lower(s) == [i \in 1..Len(s) |-> LowerChar(s[i])]

\* s[a-1:b] of Python as a 1-based inclusive slice; like Python's slices it
\* clamps the indices to the text and is empty when they cross
Slice(s, a, b) ==
    LET lo == IF a < 1 THEN 1 ELSE a
        hi == IF b > Len(s) THEN Len(s) ELSE b
    IN  IF lo > hi THEN << >> ELSE SubSeq(s, lo, hi)

\* str.strip(chars): drop the characters of cs from both ends
StripChars(s, cs) ==
    LET keep == { i \in 1..Len(s) : s[i] \notin cs }
    IN  IF keep = {} THEN << >>
        ELSE Slice(s, CHOOSE i \in keep : \A j \in keep : i <= j,
                      CHOOSE i \in keep : \A j \in keep : i >= j)

\* str.strip()
Strip(s) == StripChars(s, Whitespace)

\* sub in s
Contains(s, sub) ==
    \E i \in 1..(Len(s) - Len(sub) + 1) : SubSeq(s, i, i + Len(sub) - 1) = sub

\* s.find(c) for a set of characters: first index holding one of cs, 0 if none
FindAny(s, cs) ==
    IF \E i \in 1..Len(s) : s[i] \in cs
    THEN CHOOSE i \in 1..Len(s) : s[i] \in cs /\ \A j \in 1..(i - 1) : s[j] \notin cs
    ELSE 0

\* s.split(c)
RECURSIVE Split(_, _)
Split(s, c) ==
    LET i == FindAny(s, {c})
    IN  IF i = 0 THEN << s >>
        ELSE << Slice(s, 1, i - 1) >> \o Split(Slice(s, i + 1, Len(s)), c)

\* c.join(parts)
RECURSIVE Join(_, _)
Join(parts, c) ==
    IF Len(parts) = 0 THEN << >>
    ELSE IF Len(parts) = 1 THEN parts[1]
    ELSE parts[1] \o << c >> \o Join(Tail(parts), c)

\* Python's None, for Optional[str] and for values not yet assigned
None == << "None" >>

\* truth value of an Optional[str]: None and "" are both falsy
Truthy(x) == x /= None /\ x /= << >>

(***************************************************************************)
(* urllib.parse as the crawler uses it: urlparse, urlunparse and urljoin.  *)
(* A parsed URL is a record of its six components.                         *)
(***************************************************************************)
Digits == { "0","1","2","3","4","5","6","7","8","9" }

Letters == { LowerLetters[i] : i \in 1..26 } \cup { UpperLetters[i] : i \in 1..26 }

\* urllib.parse.scheme_chars
SchemeChars == Letters \cup Digits \cup { "+", "-", "." }

Http == << "h","t","t","p" >>

Https == << "h","t","t","p","s" >>

\* the members of uses_relative, uses_netloc and uses_params that the model's
\* URLs can carry ('' is a member of all three lists)
UsesRelative == { << >>, Http, Https }

\* the part of s before the first character of cs (all of s if there is none)
Before(s, cs) == LET i == FindAny(s, cs) IN IF i = 0 THEN s ELSE Slice(s, 1, i - 1)

\* the part of s after the first character of cs (empty if there is none)
After(s, cs) == LET i == FindAny(s, cs) IN IF i = 0 THEN << >> ELSE Slice(s, i + 1, Len(s))

\* index of the last "/" of s, 0 if none (str.rfind)
RFindSlash(s) ==
    IF \E i \in 1..Len(s) : s[i] = "/"
    THEN CHOOSE i \in 1..Len(s) : s[i] = "/" /\ \A j \in (i + 1)..Len(s) : s[j] /= "/"
    ELSE 0

\* urlsplit, first step: leading C0 control or space is stripped, tab and
\* newline characters are removed
CleanUrl(url) ==
    SelectSeq(Slice(url, FindAny(url, { url[i] : i \in 1..Len(url) } \ Whitespace), Len(url)),
              LAMBDA c : c \notin { "\t", "\n", "\r" })

\* urlsplit: whether the text before the first ":" (at index i) is a scheme
HasScheme(url, i) ==
    /\ i > 1
    /\ url[1] \in Letters
    /\ \A j \in 1..(i - 1) : url[j] \in SchemeChars

\* _splitparams: the params follow the first ";" of the last path segment
SplitParams(p, k) ==
    IF p.scheme \in UsesRelative /\ k > 0
    THEN [ p EXCEPT !.path   = Slice(p.path, 1, RFindSlash(p.path) + k - 1),
                    !.params = Slice(p.path, RFindSlash(p.path) + k + 1, Len(p.path)) ]
    ELSE p

\* urlsplit on what follows the netloc: fragment, then query, then the path
SplitRest(scheme, netloc, url) ==
    LET p == [ scheme   |-> scheme,
               netloc   |-> netloc,
               path     |-> Before(url, { "?", "#" }),
               params   |-> << >>,
               query    |-> After(Before(url, {"#"}), {"?"}),
               fragment |-> After(url, {"#"}) ]
    IN  SplitParams(p, FindAny(Slice(p.path, RFindSlash(p.path) + 1, Len(p.path)), {";"}))

\* urlsplit on what follows the scheme: a netloc if the text starts with "//"
SplitNetloc(scheme, url) ==
    IF Slice(url, 1, 2) = << "/", "/" >>
    THEN SplitRest(scheme,
                   Before(Slice(url, 3, Len(url)), { "/", "?", "#" }),
                   Slice(url, 2 + FindAny(Slice(url, 3, Len(url)) \o << "/" >>,
                                          { "/", "?", "#" }),
                         Len(url)))
    ELSE SplitRest(scheme, << >>, url)

\* urlsplit on the cleaned text
SplitScheme(url, default) ==
    IF HasScheme(url, FindAny(url, {":"}))
    THEN SplitNetloc(Lower(Slice(url, 1, FindAny(url, {":"}) - 1)),
                     Slice(url, FindAny(url, {":"}) + 1, Len(url)))
    ELSE SplitNetloc(default, url)

\* urlparse(url, scheme=default)
urlparse(url, default) == SplitScheme(CleanUrl(url), default)

\* urlunsplit: "//" netloc before the path when there is a netloc, or a
\* scheme that uses one; a path that does not start with "/" gets one
WithNetloc(p, url) ==
    IF \/ p.netloc /= << >>
       \/ /\ p.scheme /= << >>
          /\ p.scheme \in UsesRelative
          /\ Slice(url, 1, 2) /= << "/", "/" >>
    THEN << "/", "/" >> \o p.netloc
           \o (IF url /= << >> /\ url[1] /= "/" THEN << "/" >> ELSE << >>) \o url
    ELSE url

\* urlunparse((scheme, netloc, path, params, query, fragment))
urlunparse(p) ==
    (IF p.scheme /= << >> THEN p.scheme \o << ":" >> ELSE << >>)
    \o WithNetloc(p, IF p.params /= << >> THEN p.path \o << ";" >> \o p.params ELSE p.path)
    \o (IF p.query /= << >> THEN << "?" >> \o p.query ELSE << >>)
    \o (IF p.fragment /= << >> THEN << "#" >> \o p.fragment ELSE << >>)

\* the dot-segment removal loop of urljoin
RECURSIVE ResolveDots(_, _)
ResolveDots(segments, resolved) ==
    IF Len(segments) = 0 THEN resolved
    ELSE LET seg == Head(segments)
         IN  IF seg = << ".", "." >>
             THEN ResolveDots(Tail(segments),
                              IF Len(resolved) = 0 THEN resolved
                              ELSE Slice(resolved, 1, Len(resolved) - 1))
             ELSE IF seg = << "." >>
             THEN ResolveDots(Tail(segments), resolved)
             ELSE ResolveDots(Tail(segments), Append(resolved, seg))

\* the segments urljoin resolves: those of the reference alone if its path is
\* absolute, else those of the base without its last one, then the reference's,
\* with the empty segments in the middle dropped
MergeSegments(base_parts, path) ==
    IF Slice(path, 1, 1) = << "/" >> THEN Split(path, "/")
    ELSE LET joined == (IF base_parts[Len(base_parts)] /= << >>
                        THEN Slice(base_parts, 1, Len(base_parts) - 1)
                        ELSE base_parts) \o Split(path, "/")
         IN  IF Len(joined) <= 2 THEN joined
             ELSE << joined[1] >>
                  \o SelectSeq(Slice(joined, 2, Len(joined) - 1), LAMBDA x : x /= << >>)
                  \o << joined[Len(joined)] >>

\* the resolved path of urljoin: dot segments removed, a trailing "/" kept
\* after a final "." or "..", and "/" for an empty result
ResolvedPath(segments) ==
    LET resolved == IF segments[Len(segments)] \in { << "." >>, << ".", "." >> }
                    THEN Append(ResolveDots(segments, << >>), << >>)
                    ELSE ResolveDots(segments, << >>)
    IN  IF Join(resolved, "/") = << >> THEN << "/" >> ELSE Join(resolved, "/")

\* urljoin once base and url are parsed
JoinParsed(b, u, url) ==
    IF u.scheme /= b.scheme \/ u.scheme \notin UsesRelative THEN url
    ELSE IF u.netloc /= << >> THEN urlunparse(u)
    ELSE IF u.path = << >> /\ u.params = << >>
    THEN urlunparse([ u EXCEPT !.netloc = b.netloc,
                               !.path   = b.path,
                               !.params = b.params,
                               !.query  = IF u.query = << >> THEN b.query ELSE u.query ])
    ELSE urlunparse([ u EXCEPT !.netloc = b.netloc,
                               !.path   = ResolvedPath(MergeSegments(Split(b.path, "/"),
                                                                     u.path)) ])

\* urlparse(url, bscheme) for the parsed base b
JoinBase(b, url) == JoinParsed(b, urlparse(url, b.scheme), url)

\* urljoin(base, url)
urljoin(base, url) ==
    IF base = << >> THEN url
    ELSE IF url = << >> THEN base
    ELSE JoinBase(urlparse(base, << >>), url)

(***************************************************************************)
(* Program constants.                                                      *)
(***************************************************************************)
MAX_PAGES == 200

DELAY_BETWEEN_PAGES == 2

max_retries == 3

retry_delay == 3

\* the sentinel the LLM is told to answer when there is no next page
NO_NEXT_LINK == << "N","O","_","N","E","X","T","_","L","I","N","K" >>

(***************************************************************************)
(* extract_next_link: parsing of one LLM response.                         *)
(***************************************************************************)
\* NormalizeParts that drops a part equal to any part kept so far, adjacent
\* or not
RECURSIVE NormalizePartsAnywhere(_, _)
NormalizePartsAnywhere(path_parts, normalized_parts) ==
    IF Len(path_parts) = 0 THEN normalized_parts
    ELSE LET part == Head(path_parts)
             keep == \/ \A i \in 1..Len(normalized_parts) : normalized_parts[i] /= part
                     \/ part = << >>
         IN  NormalizePartsAnywhere(Tail(path_parts),
                                    IF keep THEN Append(normalized_parts, part)
                                    ELSE normalized_parts)

\* the loop that drops a path part equal to the part kept just before it
RECURSIVE NormalizeParts(_, _)
NormalizeParts(path_parts, normalized_parts) ==
    IF Len(path_parts) = 0 THEN normalized_parts
    ELSE LET part == Head(path_parts)
             keep == \/ Len(normalized_parts) = 0
                     \/ normalized_parts[Len(normalized_parts)] /= part
                     \/ part = << >>
         IN  NormalizeParts(Tail(path_parts),
                            IF keep THEN Append(normalized_parts, part)
                            ELSE normalized_parts)

\* urlparse, split the path on "/", normalise the parts, urlunparse
NormalizeParsed(parsed) ==
    urlunparse([ parsed EXCEPT
                   !.path = Join(NormalizeParts(Split(parsed.path, "/"), << >>), "/") ])

\* the normalised form of the URL urljoin returned
NormalizeUrl(absolute_url) == NormalizeParsed(urlparse(absolute_url, << >>))

\* IsSentinel without the upper(): the sentinel in capitals only
IsSentinelCaseSensitive(answer) == Contains(answer, NO_NEXT_LINK)

\* the sentinel test on the stripped response
IsSentinel(answer) == Contains(Upper(answer), NO_NEXT_LINK)

\* answer.strip('"').strip("'").strip()
CleanAnswer(answer) == Strip(StripChars(StripChars(answer, { "\"" }), { "'" }))

\* the cleaned answer as a URL: urljoin and normalisation, None if it is empty
ResolveAnswer(answer, current_url) ==
    IF answer /= << >> THEN NormalizeUrl(urljoin(current_url, answer)) ELSE None

\* the stripped response: the sentinel test, then the href
ParseStripped(answer, current_url) ==
    IF IsSentinel(answer) THEN None
    ELSE ResolveAnswer(CleanAnswer(answer), current_url)

\* what extract_next_link returns for a response with this content
ParseAnswer(content, current_url) == ParseStripped(Strip(content), current_url)

\* IsRateLimit written as: "rate_limit" in error_msg.lower() or "429",
\* which is true of every message
IsRateLimitOrTruthy(error_msg) ==
    \/ Contains(Lower(error_msg), << "r","a","t","e","_","l","i","m","i","t" >>)
    \/ << "4","2","9" >> /= << >>

\* "rate_limit" in error_msg.lower() or "429" in error_msg
IsRateLimit(error_msg) ==
    \/ Contains(Lower(error_msg), << "r","a","t","e","_","l","i","m","i","t" >>)
    \/ Contains(error_msg, << "4","2","9" >>)

(***************************************************************************)
(* Bounds and the environment's choices.                                   *)
(***************************************************************************)
\* largest max_pages argument tried (besides None, which means MAX_PAGES)
MaxPagesBound == 2

UrlA == << "h","t","t","p",":","/","/","s","/","a" >>

\* start_url arguments: a page, and the empty string
StartUrls == { UrlA, << >> }

\* max_pages arguments: << >> is None, << n >> is the integer n
MaxPagesArgs == { << >> } \cup { << n >> : n \in 0..MaxPagesBound }

\* response.text of a fetch that succeeded: an empty body or a page
Bodies == { << >>, << "<","a",">" >> }

\* responses that carry the sentinel: alone, in lower case with text around
\* it, and in mixed case inside what looks like an href
SentinelAnswers ==
    { NO_NEXT_LINK,
      << " ","n","o","_","n","e","x","t","_","l","i","n","k",":"," ","/","b","\n" >>,
      << "/","b","#","N","o","_","N","e","x","t","_","L","i","n","k" >> }

\* responses that carry an href: plain, back to the start page, and quoted
\* with a repeated path segment
HrefAnswers ==
    { << "/","b" >>,
      << "/","a" >>,
      << "\"","/","c","/","c","\"" >> }

\* responses that are empty once cleaned
EmptyAnswers == { << >>, << "'","'" >> }

\* response.content of an LLM call that returned
Answers == SentinelAnswers \cup HrefAnswers \cup EmptyAnswers

\* str(e) of an LLM call that failed because of a rate limit
RateLimitErrors ==
    { << "R","a","t","e","_","L","i","m","i","t" >>,
      << "4","2","9" >> }

\* str(e) of an LLM call that failed for another reason
OtherErrors == { << "5","0","0" >> }

\* str(e) of an LLM call that raised
ErrorMsgs == RateLimitErrors \cup OtherErrors

\* the two runs that are compared: the crawl, and its twin
Runs == { 1, 2 }

VARIABLES
    crawl,       \* crawl[r]: the state of run r of crawl_documentation
    page_start,  \* run 1 as it was when its latest iteration reached the fetch
    parse,       \* one LLM response and what extract_next_link makes of it
    pipeline     \* the crawler's main and process_documentation, with the files

vars == << crawl, page_start, parse, pipeline >>

(***************************************************************************)
(* extract_next_link on one response: the state of the parse.              *)
(*   pc        "ready" before the response is parsed, "parsed" after,      *)
(*             "resolved" once the URL returned was resolved against       *)
(*             itself                                                      *)
(*   result    what extract_next_link returned for content on current_url  *)
(*   again     result resolved and normalised with result as the base      *)
(***************************************************************************)
\* llm.invoke returned content on the page at current_url
ParseStart(content, current_url) ==
    [ pc          |-> "ready",
      content     |-> content,
      current_url |-> current_url,
      result      |-> None,
      again       |-> None ]

\* no response is being parsed
NoParse == [ ParseStart(<< >>, << >>) EXCEPT !.pc = "absent" ]

(***************************************************************************)
(* The two programs around the URL list file: the crawler's main, which    *)
(* writes it, and process_documentation, which reads it and converts.      *)
(*   pc               "start", "crawled" after the crawler's main,         *)
(*                    "converting" in the loop of process_documentation,   *)
(*                    "done" after its return                              *)
(*   file             the content of documentation_urls.txt, None if the   *)
(*                    file does not exist                                  *)
(*   all_urls         what crawl_documentation returned to the crawler's   *)
(*                    main                                                 *)
(*   crawl_calls      the start URLs process_documentation has called      *)
(*                    crawl_documentation with                             *)
(*   index            the URLs the loop of process_documentation has been  *)
(*                    through                                              *)
(*   conversions      the calls of convert_url_to_markdown so far, in      *)
(*                    order: the URL, the file name and the value returned *)
(*   raised           an exception has left process_documentation          *)
(***************************************************************************)
\* before either program has run: the file as an earlier run left it
PipelineStart(file, base_url) ==
    [ pc                     |-> "start",
      file                   |-> file,
      base_url               |-> base_url,
      all_urls               |-> << >>,
      crawl_calls            |-> << >>,
      urls_to_convert        |-> << >>,
      index                  |-> 0,
      conversions            |-> << >>,
      successful_conversions |-> 0,
      failed_conversions     |-> 0,
      raised                 |-> FALSE ]

\* neither program is run
NoPipeline == [ PipelineStart(None, << >>) EXCEPT !.pc = "absent" ]

(***************************************************************************)
(* crawl_documentation: the state of one run and its steps.                *)
(*   pc            "loop" at the while test, "fetch" in download_html,     *)
(*                 "invoke" in llm.invoke, "done" after the return         *)
(*   calls, slept  the LLM outcomes and the time.sleep calls of the        *)
(*                 current iteration, in order                             *)
(*   printed       the stop diagnostics printed so far                     *)
(***************************************************************************)
\* crawl_documentation(start_url, max_pages) up to the while loop
Start(start_url, max_pages_arg) ==
    [ pc           |-> "loop",
      start_url    |-> start_url,
      max_pages    |-> IF max_pages_arg = << >> THEN MAX_PAGES ELSE max_pages_arg[1],
      visited_urls |-> << >>,
      current_url  |-> start_url,
      html         |-> None,
      next_url     |-> None,
      attempt      |-> 0,
      calls        |-> << >>,
      slept        |-> << >>,
      fetches      |-> 0,
      invokes      |-> 0,
      printed      |-> << >>,
      returned     |-> << >>,
      raised       |-> FALSE ]

\* a run that has not been started
Absent == [ Start(<< >>, << >>) EXCEPT !.pc = "absent" ]

\* after the loop: the page-limit message, then return visited_urls
Finish(st) ==
    [ st EXCEPT !.pc       = "done",
                !.printed  = IF Len(st.visited_urls) >= st.max_pages
                             THEN Append(@, "limit") ELSE @,
                !.returned = st.visited_urls ]

\* LoopCondition with the page cap tested one page too late
LoopConditionOffByOne(st) ==
    st.current_url /= << >> /\ Len(st.visited_urls) <= st.max_pages

\* the while condition
LoopCondition(st) ==
    st.current_url /= << >> /\ Len(st.visited_urls) < st.max_pages

\* AlreadyVisited that only looks at the page visited last
AlreadyVisitedLastOnly(st) ==
    /\ Len(st.visited_urls) > 0
    /\ st.visited_urls[Len(st.visited_urls)] = st.current_url

\* current_url in visited_urls
AlreadyVisited(st) ==
    \E i \in 1..Len(st.visited_urls) : st.visited_urls[i] = st.current_url

\* LoopStep that reports the cycle but goes on with the iteration (no break)
LoopStepNoBreak(st) ==
    IF ~LoopCondition(st) THEN Finish(st)
    ELSE [ st EXCEPT !.pc           = "fetch",
                     !.printed      = IF AlreadyVisited(st) THEN Append(@, "cycle") ELSE @,
                     !.visited_urls = Append(@, st.current_url),
                     !.calls        = << >>,
                     !.slept        = << >> ]

\* the while test, the cycle check and the append
LoopStep(st) ==
    IF ~LoopCondition(st) THEN Finish(st)
    ELSE IF AlreadyVisited(st)
    THEN Finish([ st EXCEPT !.printed = Append(@, "cycle") ])
    ELSE [ st EXCEPT !.pc           = "fetch",
                     !.visited_urls = Append(@, st.current_url),
                     !.calls        = << >>,
                     !.slept        = << >> ]

\* download_html: the body, or None on a requests.RequestException
download_html(outcome) == IF outcome.ok THEN outcome.text ELSE None

\* AfterDownload that takes the page that could not be fetched off the list
AfterDownloadDropFailed(st, html) ==
    LET st1 == [ st EXCEPT !.html = html, !.fetches = @ + 1 ]
    IN  IF ~Truthy(html)
        THEN Finish([ st1 EXCEPT
                        !.printed      = Append(@, "download_failed"),
                        !.visited_urls = Slice(@, 1, Len(@) - 1) ])
        ELSE [ st1 EXCEPT !.pc = "invoke", !.attempt = 0 ]

\* AfterDownload that stops on None only (if html is None): an empty body
\* goes to the LLM
AfterDownloadNoneOnly(st, html) ==
    LET st1 == [ st EXCEPT !.html = html, !.fetches = @ + 1 ]
    IN  IF html = None
        THEN Finish([ st1 EXCEPT !.printed = Append(@, "download_failed") ])
        ELSE [ st1 EXCEPT !.pc = "invoke", !.attempt = 0 ]

\* AfterDownload without the test of html: the LLM is asked about a page
\* that could not be fetched
AfterDownloadUnchecked(st, html) ==
    [ st EXCEPT !.html = html, !.fetches = @ + 1, !.pc = "invoke", !.attempt = 0 ]

\* html = download_html(current_url); if not html: break
AfterDownload(st, html) ==
    LET st1 == [ st EXCEPT !.html = html, !.fetches = @ + 1 ]
    IN  IF ~Truthy(html)
        THEN Finish([ st1 EXCEPT !.printed = Append(@, "download_failed") ])
        ELSE [ st1 EXCEPT !.pc = "invoke", !.attempt = 0 ]

\* AfterExtract without the assignment current_url = next_url
AfterExtractSamePage(st, next_url) ==
    LET st1 == [ st EXCEPT !.next_url = next_url ]
    IN  IF Truthy(next_url)
        THEN [ st1 EXCEPT !.pc    = "loop",
                          !.slept = Append(@, DELAY_BETWEEN_PAGES) ]
        ELSE Finish([ st1 EXCEPT !.printed = Append(@, "complete") ])

\* back in the crawl loop with the value extract_next_link returned
AfterExtract(st, next_url) ==
    LET st1 == [ st EXCEPT !.next_url = next_url ]
    IN  IF Truthy(next_url)
        THEN [ st1 EXCEPT !.pc          = "loop",
                          !.current_url = next_url,
                          !.slept       = Append(@, DELAY_BETWEEN_PAGES) ]
        ELSE Finish([ st1 EXCEPT !.printed = Append(@, "complete") ])

\* WaitTime without the growth: the same delay before every retry
WaitTimeConstant(attempt) == retry_delay

\* wait_time = retry_delay * (attempt + 1)
WaitTime(attempt) == retry_delay * (attempt + 1)

\* OnException that lets an error that is not a rate limit reach the caller
OnExceptionReraise(st, error_msg) ==
    IF IsRateLimit(error_msg)
    THEN IF st.attempt < max_retries - 1
         THEN IF st.attempt + 1 < max_retries
              THEN [ st EXCEPT !.slept   = Append(@, WaitTime(st.attempt)),
                               !.attempt = @ + 1 ]
              ELSE AfterExtract([ st EXCEPT !.slept = Append(@, WaitTime(st.attempt)) ],
                                None)
         ELSE AfterExtract([ st EXCEPT !.printed = Append(@, "rate_limit_exceeded") ],
                           None)
    ELSE [ st EXCEPT !.pc      = "done",
                     !.printed = Append(@, "llm_error"),
                     !.raised  = TRUE ]

\* OnException that retries after the last attempt too (attempt < max_retries)
OnExceptionExtraRetry(st, error_msg) ==
    IF IsRateLimit(error_msg)
    THEN IF st.attempt < max_retries
         THEN IF st.attempt + 1 < max_retries
              THEN [ st EXCEPT !.slept   = Append(@, WaitTime(st.attempt)),
                               !.attempt = @ + 1 ]
              ELSE AfterExtract([ st EXCEPT !.slept = Append(@, WaitTime(st.attempt)) ],
                                None)
         ELSE AfterExtract([ st EXCEPT !.printed = Append(@, "rate_limit_exceeded") ],
                           None)
    ELSE AfterExtract([ st EXCEPT !.printed = Append(@, "llm_error") ], None)

\* OnException that retries a rate-limited call without counting the attempt
OnExceptionNoCount(st, error_msg) ==
    IF IsRateLimit(error_msg)
    THEN IF st.attempt < max_retries - 1
         THEN [ st EXCEPT !.slept = Append(@, WaitTime(st.attempt)) ]
         ELSE AfterExtract([ st EXCEPT !.printed = Append(@, "rate_limit_exceeded") ],
                           None)
    ELSE AfterExtract([ st EXCEPT !.printed = Append(@, "llm_error") ], None)

\* the except branch of one attempt
OnException(st, error_msg) ==
    IF IsRateLimit(error_msg)
    THEN IF st.attempt < max_retries - 1
         THEN \* sleep and continue with the next attempt of the for loop
              IF st.attempt + 1 < max_retries
              THEN [ st EXCEPT !.slept   = Append(@, WaitTime(st.attempt)),
                               !.attempt = @ + 1 ]
              ELSE AfterExtract([ st EXCEPT !.slept = Append(@, WaitTime(st.attempt)) ],
                                None)
         ELSE AfterExtract([ st EXCEPT !.printed = Append(@, "rate_limit_exceeded") ],
                           None)
    ELSE AfterExtract([ st EXCEPT !.printed = Append(@, "llm_error") ], None)

\* one attempt of the retry loop of extract_next_link, and what follows it
AttemptStep(st, outcome) ==
    LET st1 == [ st EXCEPT !.invokes = @ + 1, !.calls = Append(@, outcome) ]
    IN  IF outcome.ok
        THEN AfterExtract(st1, ParseAnswer(outcome.text, st.current_url))
        ELSE OnException(st1, outcome.text)

(***************************************************************************)
(* The actions: one per step of a run, the environment choosing the        *)
(* outcome of the fetch and of the LLM call.                               *)
(***************************************************************************)
FetchOutcomes ==
    { [ ok |-> FALSE, text |-> << >> ] } \cup { [ ok |-> TRUE, text |-> b ] : b \in Bodies }

InvokeOutcomes ==
    { [ ok |-> TRUE, text |-> a ] : a \in Answers }
    \cup { [ ok |-> FALSE, text |-> e ] : e \in ErrorMsgs }

Init ==
    /\ \E start_url \in StartUrls, max_pages_arg \in MaxPagesArgs :
          crawl = [ r \in Runs |-> IF r = 1 THEN Start(start_url, max_pages_arg)
                                   ELSE Absent ]
    /\ page_start = Absent
    /\ parse = NoParse
    /\ pipeline = NoPipeline

\* the twin is followed through the page it was started on
MayIterate(r) == r = 1

LoopTest(r) ==
    /\ crawl[r].pc = "loop"
    /\ MayIterate(r)
    /\ crawl' = [ crawl EXCEPT ![r] = LoopStep(crawl[r]) ]
    /\ page_start' = IF r = 1 /\ crawl'[r].pc = "fetch" THEN crawl'[r] ELSE page_start
    /\ UNCHANGED << parse, pipeline >>

Download(r) ==
    /\ crawl[r].pc = "fetch"
    /\ \E outcome \in FetchOutcomes :
          crawl' = [ crawl EXCEPT ![r] = AfterDownload(crawl[r], download_html(outcome)) ]
    /\ UNCHANGED << page_start, parse, pipeline >>

Invoke(r) ==
    /\ crawl[r].pc = "invoke"
    /\ \E outcome \in InvokeOutcomes :
          crawl' = [ crawl EXCEPT ![r] = AttemptStep(crawl[r], outcome) ]
    /\ UNCHANGED << page_start, parse, pipeline >>

\* the last page of run 1 ended in a failure: of the fetch, or of the LLM
EndedInFailure(st) ==
    /\ st.pc = "done"
    /\ \E i \in 1..Len(st.printed) :
          st.printed[i] \in { "download_failed", "rate_limit_exceeded", "llm_error" }

\* a second run of crawl_documentation with the same arguments, for which the
\* environment behaved as for run 1 up to the page run 1 failed on
Twin ==
    /\ EndedInFailure(crawl[1])
    /\ crawl[2].pc = "absent"
    /\ crawl' = [ crawl EXCEPT ![2] = page_start ]
    /\ UNCHANGED << page_start, parse, pipeline >>

Next ==
    \/ \E r \in Runs : LoopTest(r)
    \/ \E r \in Runs : Download(r)
    \/ \E r \in Runs : Invoke(r)
    \/ Twin

Spec == Init /\ [][Next]_vars

\* the steps of run r
RunSteps(r) == LoopTest(r) \/ Download(r) \/ Invoke(r)

\* the crawl as the interpreter runs it: every call of requests.get and of
\* llm.invoke returns, and the statement after it is executed
FairSpec == Spec /\ WF_vars(RunSteps(1))

(***************************************************************************)
(* extract_next_link on one response, for responses built from a few       *)
(* tokens: the parse of the response, then the returned URL resolved       *)
(* against itself.                                                         *)
(***************************************************************************)
\* most tokens of a response
MaxTokens == 3

\* path segments, separators, dot, a scheme other than the page's, quotes
\* and a space
HrefTokens ==
    { << "a" >>, << "b" >>, << "/" >>, << "." >>, << "?" >>, << "#" >>,
      << "h","t","t","p","s",":" >>,
      << "\"" >>, << "'" >>, << " " >> }

\* the texts of a sequence of tokens, one after the other
RECURSIVE Flatten(_)
Flatten(tokens) ==
    IF Len(tokens) = 0 THEN << >> ELSE Head(tokens) \o Flatten(Tail(tokens))

\* response.content: up to MaxTokens tokens
Contents ==
    { Flatten(tokens) : tokens \in UNION { [1..n -> HrefTokens] : n \in 0..MaxTokens } }

\* a page in a directory
UrlDir == << "h","t","t","p",":","/","/","s","/","a","/","b","/" >>

\* the documented example: href /guides/guides/x on https://site/guides/
GuidesHref ==
    << "/","g","u","i","d","e","s","/","g","u","i","d","e","s","/","x" >>

GuidesBase ==
    << "h","t","t","p","s",":","/","/","s","i","t","e","/","g","u","i","d","e","s","/" >>

\* the pages the responses are parsed on
Bases == { UrlA, UrlDir }

ParseInit ==
    /\ crawl = [ r \in Runs |-> Absent ]
    /\ page_start = Absent
    /\ pipeline = NoPipeline
    /\ \/ \E content \in Contents, current_url \in Bases :
              parse = ParseStart(content, current_url)
       \/ parse = ParseStart(GuidesHref, GuidesBase)

\* lines 139-182 of extract_next_link on the response
Extract ==
    /\ parse.pc = "ready"
    /\ parse' = [ parse EXCEPT !.pc     = "parsed",
                               !.result = ParseAnswer(parse.content, parse.current_url) ]
    /\ UNCHANGED << crawl, page_start, pipeline >>

\* the URL returned, given back as the href on the page at that URL
ResolveAgain ==
    /\ parse.pc = "parsed"
    /\ Truthy(parse.result)
    /\ parse' = [ parse EXCEPT !.pc    = "resolved",
                               !.again = ResolveAnswer(parse.result, parse.result) ]
    /\ UNCHANGED << crawl, page_start, pipeline >>

ParseNext == Extract \/ ResolveAgain

ParseSpec == ParseInit /\ [][ParseNext]_vars

(***************************************************************************)
(* extract_next_link: the page content that goes into the prompt.          *)
(***************************************************************************)
\* max_chars = 30000
max_chars == 30000

\* the 15000 of html[:15000] and html[-15000:]
half_chars == 15000

\* "\n\n[... middle content truncated ...]\n\n"
TruncationMarker ==
    << "\n", "\n", "[", ".", ".", ".", " ", "m", "i", "d", "d", "l", "e",
       " ", "c", "o", "n", "t", "e", "n", "t", " ", "t", "r", "u", "n", "c",
       "a", "t", "e", "d", " ", ".", ".", ".", "]", "\n", "\n" >>

\* html[:15000]
html_start(html) == Slice(html, 1, half_chars)

\* html[-15000:]
html_end(html) == Slice(html, Len(html) - half_chars + 1, Len(html))

\* truncated_html that cuts a page of exactly max_chars characters too
truncated_html_from_max_chars(html) ==
    IF Len(html) >= max_chars
    THEN html_start(html) \o TruncationMarker \o html_end(html)
    ELSE html

\* truncated_html, the text put into the user prompt for html
truncated_html(html) ==
    IF Len(html) > max_chars
    THEN html_start(html) \o TruncationMarker \o html_end(html)
    ELSE html

\* how far from 0, from half_chars, from max_chars and from twice max_chars
\* the lengths of the pages are
MaxAround == 4

\* lengths of the pages: short ones, and those around the numbers of the code
PageLengths ==
    UNION { { d, half_chars - d, half_chars + d, max_chars - d, max_chars + d,
              2 * max_chars - d, 2 * max_chars + d } : d \in 0..MaxAround }

\* what pages are made of: one character, a tag, and a text whose period
\* divides none of the numbers of the code
PageUnits ==
    { << "a" >>, << "<","a",">" >>, << "a","b","c","d","e","f","g" >> }

\* the page of n characters made of unit, repeated
PageOf(unit, n) == [ i \in 1..n |-> unit[((i - 1) % Len(unit)) + 1] ]

\* extract_next_link(html, ...) at its first statement
PromptStart(html) ==
    [ pc |-> "html", html |-> html, truncated_html |-> None ]

PromptInit ==
    /\ crawl = [ r \in Runs |-> Absent ]
    /\ page_start = Absent
    /\ pipeline = NoPipeline
    /\ \E unit \in PageUnits, n \in PageLengths : parse = PromptStart(PageOf(unit, n))

\* lines 79-85: the content for the prompt
Truncate ==
    /\ parse.pc = "html"
    /\ parse' = [ parse EXCEPT !.pc             = "prompt",
                               !.truncated_html = truncated_html(parse.html) ]
    /\ UNCHANGED << crawl, page_start, pipeline >>

PromptNext == Truncate

PromptSpec == PromptInit /\ [][PromptNext]_vars

(***************************************************************************)
(* The crawler's main (crawl_documentation.py) and process_documentation   *)
(* (main.py) around documentation_urls.txt.                                *)
(***************************************************************************)
\* start_url of the crawler's main
MainStartUrl ==
    << "h", "t", "t", "p", "s", ":", "/", "/", "w", "w", "w", ".", "g", "r", "a", "d", "i", "o", ".", "a",
       "p", "p", "/", "m", "a", "i", "n", "/", "g", "u", "i", "d", "e", "s", "/", "q", "u", "i", "c", "k",
       "s", "t", "a", "r", "t" >>

\* most pages the LLM answers for in the crawl of the crawler's main
MaxCrawlPages == 2

\* the answers of the LLM in that crawl: a relative href, the same with a
\* slash at its end, an absolute path, a relative href with a space before
\* an empty fragment, and the sentinel
CrawlAnswers ==
    { << "b" >>, << "b","/" >>, << "/","c" >>, << "a"," ","#" >>, NO_NEXT_LINK }

\* the behaviour of the site and of the LLM in one crawl: the answers for the
\* pages fetched, in order; the fetch after the last of them fails
CrawlBehaviours == UNION { [1..n -> CrawlAnswers] : n \in 0..MaxCrawlPages }

\* crawl_documentation from st to its return, the fetches succeeding while
\* there are answers and the LLM giving them in order
RECURSIVE RunCrawl(_, _)
RunCrawl(st, answers) ==
    IF st.pc = "done" THEN st
    ELSE IF st.pc = "loop" THEN RunCrawl(LoopStep(st), answers)
    ELSE IF st.pc = "fetch"
    THEN RunCrawl(AfterDownload(st, download_html(
                      IF Len(answers) = 0 THEN [ ok |-> FALSE, text |-> << >> ]
                      ELSE [ ok |-> TRUE, text |-> << "<","a",">" >> ])),
                  answers)
    ELSE RunCrawl(AttemptStep(st, [ ok |-> TRUE, text |-> Head(answers) ]), Tail(answers))

\* for url in all_urls: f.write(f"{url}\n")
WriteLines(all_urls) ==
    Flatten([ i \in 1..Len(all_urls) |-> all_urls[i] \o << "\n" >> ])

\* s with every c replaced by d
Replace(s, c, d) == [ i \in 1..Len(s) |-> IF s[i] = c THEN d ELSE s[i] ]

\* [line.strip() for line in f if line.strip()]: the lines of a file opened
\* in text mode end at "\n", and at "\r" read as "\n"
ReadLines(text) ==
    SelectSeq([ i \in 1..Len(Split(Replace(text, "\r", "\n"), "\n")) |->
                  Strip(Split(Replace(text, "\r", "\n"), "\n")[i]) ],
              LAMBDA line : line /= << >>)

\* urlsplit raises ValueError("Invalid IPv6 URL") on a netloc with one of
\* "[" and "]" but not the other (it also raises on a bracketed host that is
\* no IP address; no URL here has one)
InvalidNetloc(netloc) ==
    LET chars == { netloc[i] : i \in 1..Len(netloc) }
    IN  ("[" \in chars) /= ("]" \in chars)

\* re.sub(r'[^\w\-_\.]', '_', path), one character
SafeChar(c) == IF c \in Letters \cup Digits \cup { "_", "-", "." } THEN c ELSE "_"

\* re.sub(r'_+', '_', path): an underscore after an underscore is dropped
CollapseUnderscores(path) ==
    LET keep == { i \in 1..Len(path) :
                    path[i] /= "_" \/ i = 1 \/ path[i - 1] /= "_" }
    IN  [ k \in 1..Cardinality(keep) |->
            path[CHOOSE i \in keep : Cardinality({ j \in keep : j <= i }) = k] ]

\* the path of the URL as a file name: slashes stripped and replaced, unsafe
\* characters replaced, underscores collapsed
SanitizePath(path) ==
    CollapseUnderscores([ i \in 1..Len(StripChars(path, { "/" })) |->
                            SafeChar(Replace(StripChars(path, { "/" }), "/", "_")[i]) ])

\* the domain name for an empty path, and the extension
FilenameFor(parsed, path) ==
    (IF path = << >> THEN Replace(parsed.netloc, ".", "_") ELSE path)
    \o << ".","m","d" >>

\* sanitize_filename(url), for a URL urlparse accepts
sanitize_filename(url) ==
    FilenameFor(urlparse(url, << >>), SanitizePath(urlparse(url, << >>).path))

\* convert_url_to_markdown: True, or False when anything in it raised
convert_url_to_markdown(outcome) == outcome = "converted"

ConversionOutcomes == { "converted", "raised" }

\* a file of URLs as edited by hand: blanks around a URL, an empty line, a
\* line urlparse rejects, no newline at the end
EditedFile ==
    << " ","h","t","t","p",":","/","/","s","/","a"," ","\n",
       "\n",
       "h","t","t","p",":","/","/","[","x","\n",
       "h","t","t","p",":","/","/","s","/","b" >>

\* documentation_urls.txt before the programs run: missing, empty, left by a
\* crawl that visited one page, or edited by hand
OldFiles == { None, << >>, WriteLines(<< UrlA >>), EditedFile }

\* base_url arguments of process_documentation
BaseUrls == { MainStartUrl, UrlA }

\* the crawler's main: the crawl from start_url, then the URL file
crawler_main(st, answers) ==
    [ st EXCEPT !.pc       = "crawled",
                !.all_urls = RunCrawl(Start(MainStartUrl, << >>), answers).returned,
                !.file     = WriteLines(RunCrawl(Start(MainStartUrl, << >>),
                                                 answers).returned) ]

\* process_documentation up to the conversion loop: no crawl is made (the
\* call is commented out); return if the file is missing or holds no URL
ReadUrls(st) ==
    IF st.file = None THEN [ st EXCEPT !.pc = "done" ]
    ELSE IF ReadLines(st.file) = << >>
    THEN [ st EXCEPT !.pc = "done" ]
    ELSE [ st EXCEPT !.pc                     = "converting",
                     !.urls_to_convert        = ReadLines(st.file),
                     !.index                  = 0,
                     !.successful_conversions = 0,
                     !.failed_conversions     = 0 ]

\* the rest of an iteration once the file name is there: the conversion and
\* the counters; after the last URL the summary and the return
Converted(st, url, success) ==
    [ st EXCEPT !.pc          = IF st.index + 1 = Len(st.urls_to_convert)
                                THEN "done" ELSE "converting",
                !.index       = @ + 1,
                !.conversions = Append(@, [ url      |-> url,
                                            filename |-> sanitize_filename(url),
                                            success  |-> success ]),
                !.successful_conversions = IF success THEN @ + 1 ELSE @,
                !.failed_conversions     = IF success THEN @ ELSE @ + 1 ]

\* one iteration of the conversion loop: urlparse in sanitize_filename may
\* raise, and nothing in process_documentation catches it
ConvertStep(st, outcome) ==
    IF InvalidNetloc(urlparse(st.urls_to_convert[st.index + 1], << >>).netloc)
    THEN [ st EXCEPT !.pc = "done", !.raised = TRUE ]
    ELSE Converted(st, st.urls_to_convert[st.index + 1], convert_url_to_markdown(outcome))

PipelineInit ==
    /\ crawl = [ r \in Runs |-> Absent ]
    /\ page_start = Absent
    /\ parse = NoParse
    /\ \E file \in OldFiles, base_url \in BaseUrls :
          pipeline = PipelineStart(file, base_url)

\* python crawl_documentation.py
CrawlerMain ==
    /\ pipeline.pc = "start"
    /\ \E answers \in CrawlBehaviours : pipeline' = crawler_main(pipeline, answers)
    /\ UNCHANGED << crawl, page_start, parse >>

\* process_documentation(base_url) is called, before or after the crawler
ProcessDocumentation ==
    /\ pipeline.pc \in { "start", "crawled" }
    /\ pipeline' = ReadUrls(pipeline)
    /\ UNCHANGED << crawl, page_start, parse >>

\* the conversion loop takes the next URL
Convert ==
    /\ pipeline.pc = "converting"
    /\ \E outcome \in ConversionOutcomes : pipeline' = ConvertStep(pipeline, outcome)
    /\ UNCHANGED << crawl, page_start, parse >>

PipelineNext == CrawlerMain \/ ProcessDocumentation \/ Convert

PipelineSpec == PipelineInit /\ [][PipelineNext]_vars

(***************************************************************************)
(* Helpers of the properties.                                              *)
(***************************************************************************)
\* the runs that have been started
Started == { r \in Runs : crawl[r].pc /= "absent" }

\* tag is among the diagnostics the run printed
Printed(st, tag) == \E i \in 1..Len(st.printed) : st.printed[i] = tag

\* the run left the loop through a break
Broke(st) ==
    Printed(st, "cycle") \/ Printed(st, "download_failed") \/ Printed(st, "complete")

\* the run returned because the while test failed on the page cap
StoppedByCap(st) == st.pc = "done" /\ ~Broke(st) /\ st.current_url /= << >>

UrlB == << "h","t","t","p",":","/","/","s","/","b" >>

UrlC == << "h","t","t","p",":","/","/","s","/","c" >>

(***************************************************************************)
(* C1: in every reachable state, for every start URL, every behaviour of   *)
(* the fetches and of the LLM and every max_pages >= 0, the number of      *)
(* visited URLs is at most max_pages; and when the run stopped because of  *)
(* the cap, it is exactly max_pages.                                       *)
(***************************************************************************)
C1_VisitedWithinCap ==
    \A r \in Started :
        /\ Len(crawl[r].visited_urls) <= crawl[r].max_pages
        /\ StoppedByCap(crawl[r]) => Len(crawl[r].visited_urls) = crawl[r].max_pages

\* a run with max_pages = 2 that found a third page and was stopped by the cap
C1_Witness ==
    /\ StoppedByCap(crawl[1])
    /\ crawl[1].max_pages = 2
    /\ crawl[1].visited_urls = << UrlA, UrlB >>
    /\ crawl[1].current_url = UrlC

(***************************************************************************)
(* C2: in every reachable state the visited list holds no URL twice        *)
(* (exact equality of the texts): a URL is appended only after it was      *)
(* found not to be in the list.                                            *)
(***************************************************************************)
C2_VisitedUnique ==
    \A r \in Started :
        \A i, j \in 1..Len(crawl[r].visited_urls) :
            crawl[r].visited_urls[i] = crawl[r].visited_urls[j] => i = j

\* three pages were visited and the LLM then pointed back at the first one:
\* the run ended without appending it a second time
C2_Witness ==
    /\ crawl[1].pc = "done"
    /\ Printed(crawl[1], "cycle")
    /\ crawl[1].visited_urls = << UrlA, UrlB, UrlC >>
    /\ crawl[1].current_url = UrlA

(***************************************************************************)
(* Helpers of the cycle property.                                          *)
(***************************************************************************)
\* the extraction of the start URL resolved back to the start URL
ResolvedBackToStart(st) ==
    /\ st.visited_urls = << st.start_url >>
    /\ Len(st.calls) > 0
    /\ st.calls[Len(st.calls)].ok
    /\ st.next_url = st.start_url

\* a step of run r that starts an iteration with current_url already visited
HaltsOnCycle(r) ==
    ( /\ crawl[r].pc = "loop"
      /\ crawl'[r] /= crawl[r]
      /\ crawl[r].current_url /= << >>
      /\ Len(crawl[r].visited_urls) < crawl[r].max_pages
      /\ \E i \in 1..Len(crawl[r].visited_urls) :
            crawl[r].visited_urls[i] = crawl[r].current_url )
    => /\ crawl'[r].pc = "done"
       /\ Printed(crawl'[r], "cycle")
       /\ crawl'[r].fetches = crawl[r].fetches
       /\ crawl'[r].invokes = crawl[r].invokes
       /\ crawl'[r].visited_urls = crawl[r].visited_urls
       /\ crawl'[r].returned = crawl[r].visited_urls

\* start URL A resolved back to A: how the run has ended
EndsOnCycleOfStart(st) ==
    /\ Printed(st, "cycle")
    /\ st.returned = << st.start_url >>
    /\ st.fetches = 1

(***************************************************************************)
(* C3: whenever an iteration starts with current_url already in the        *)
(* visited list, the run halts on the cycle (the cycle diagnostic is       *)
(* printed and the list is returned) with no fetch and no LLM call for     *)
(* that URL and with the visited list unchanged.  In particular, when the  *)
(* extraction of start URL A resolves back to A and max_pages is at least  *)
(* 2, the run ends with visited = [A], stopped on the cycle, after exactly *)
(* one fetch.  (With max_pages = 1 the while test fails first: the run     *)
(* ends with the same list, stopped by the page cap.)                      *)
(***************************************************************************)
C3_CycleHalts ==
    /\ [] ( \A r \in Started :
               ( /\ crawl[r].pc = "done"
                 /\ ResolvedBackToStart(crawl[r])
                 /\ crawl[r].max_pages >= 2 )
               => EndsOnCycleOfStart(crawl[r]) )
    /\ [][ \A r \in Started : HaltsOnCycle(r) ]_vars

\* C3 for every max_pages, 1 included: a run whose start URL resolved back to
\* itself has ended stopped on the cycle, with visited = [A], after one fetch
C3_AsStated ==
    \A r \in Started :
        ( crawl[r].pc = "done" /\ ResolvedBackToStart(crawl[r]) )
        => EndsOnCycleOfStart(crawl[r])

\* the LLM answered "/a" on http://s/a and the run halted on the cycle
C3_Witness ==
    /\ crawl[1].pc = "done"
    /\ crawl[1].start_url = UrlA
    /\ ResolvedBackToStart(crawl[1])
    /\ crawl[1].max_pages >= 2
    /\ Printed(crawl[1], "cycle")
    /\ crawl[1].returned = << UrlA >>
    /\ crawl[1].fetches = 1

(***************************************************************************)
(* Helpers of the retry properties.                                        *)
(***************************************************************************)
\* the waits of a linear backoff of base 3 s after k failed attempts
Backoff(k) == [ i \in 1..k |-> 3 * i ]

\* the first k LLM calls of the iteration failed on a rate limit
FailedRateLimited(st, k) ==
    \A i \in 1..k : ~st.calls[i].ok /\ st.calls[i].text \in RateLimitErrors

\* the extraction call of the iteration has returned and the crawl loop has
\* acted on its result, and on nothing later
JustExtracted(st) ==
    /\ Len(st.calls) > 0
    /\ \/ st.pc = "loop"
       \/ st.pc = "done" /\ Printed(st, "complete")

\* the state the iteration would have reached, had its first attempt had the
\* outcome of the attempt that succeeded
AsIfFirstAttempt(st) ==
    AttemptStep(AfterDownload(page_start, st.html), st.calls[Len(st.calls)])

\* the run stopped as on "no next link": None came back, the completion
\* message was printed and the visited list was returned as it stood
StoppedAsNoNextLink(st) ==
    /\ st.pc = "done"
    /\ st.next_url = None
    /\ Printed(st, "complete")
    /\ st.returned = st.visited_urls
    /\ st.visited_urls = page_start.visited_urls
    /\ ~st.raised

(***************************************************************************)
(* C4: in one extraction call (max_retries = 3, retry_delay = 3 s), if     *)
(* every LLM attempt fails on a rate limit there are exactly 3 attempts    *)
(* and exactly 2 backoff waits, of 3 s then 6 s in that order, after which *)
(* the call returns None as for "no next link"; a 4th attempt never occurs *)
(* and no wait follows the last attempt.                                   *)
(***************************************************************************)
C4_RetryBound ==
    \A r \in Started :
        /\ Len(crawl[r].calls) <= 3
        /\ ( /\ Len(crawl[r].calls) > 0
             /\ FailedRateLimited(crawl[r], Len(crawl[r].calls)) )
           => IF crawl[r].pc = "invoke"
              THEN /\ Len(crawl[r].calls) < 3
                   /\ crawl[r].slept = Backoff(Len(crawl[r].calls))
              ELSE /\ Len(crawl[r].calls) = 3
                   /\ crawl[r].slept = << 3, 6 >>
                   /\ StoppedAsNoNextLink(crawl[r])

\* three attempts failed on a rate limit, the run is over
C4_Witness ==
    /\ crawl[1].pc = "done"
    /\ Len(crawl[1].calls) = 3
    /\ FailedRateLimited(crawl[1], 3)
    /\ crawl[1].slept = << 3, 6 >>
    /\ crawl[1].returned = << UrlA >>

(***************************************************************************)
(* C5: if LLM attempts fail on a rate limit and a later attempt within the *)
(* max_retries attempts succeeds, the extraction call returns the result   *)
(* of that attempt (a next URL, or None) and the crawl goes on exactly as  *)
(* if the first attempt had succeeded, having waited retry_delay * k       *)
(* seconds after the k-th failed attempt.                                  *)
(***************************************************************************)
C5_RetrySucceeds ==
    \A r \in Started :
        LET st == crawl[r]
            n  == Len(st.calls)
        IN  ( /\ JustExtracted(st)
              /\ n >= 2
              /\ st.calls[n].ok
              /\ FailedRateLimited(st, n - 1) )
            => /\ st.next_url = ParseAnswer(st.calls[n].text, page_start.current_url)
               /\ SubSeq(st.slept, 1, n - 1) = Backoff(n - 1)
               /\ st = [ AsIfFirstAttempt(st) EXCEPT
                           !.calls   = st.calls,
                           !.attempt = n - 1,
                           !.invokes = @ + n - 1,
                           !.slept   = Backoff(n - 1) \o @ ]

\* two attempts failed on a rate limit, the third answered "/b": the crawl
\* moves on to http://s/b
C5_Witness ==
    /\ crawl[1].pc = "loop"
    /\ Len(crawl[1].calls) = 3
    /\ FailedRateLimited(crawl[1], 2)
    /\ crawl[1].calls[3] = [ ok |-> TRUE, text |-> << "/", "b" >> ]
    /\ crawl[1].current_url = UrlB
    /\ crawl[1].slept = << 3, 6, 2 >>

(***************************************************************************)
(* C6: if an LLM attempt fails with an error that is not a rate limit, the *)
(* extraction call makes no further attempt and no backoff wait, returns   *)
(* None as for "no next link", and the crawl stops after the current page  *)
(* with the visited list unchanged.                                        *)
(***************************************************************************)
C6_OtherErrorStops ==
    \A r \in Started :
        LET st == crawl[r]
            n  == Len(st.calls)
        IN  ( /\ n >= 1
              /\ ~st.calls[n].ok
              /\ st.calls[n].text \in OtherErrors )
            => /\ StoppedAsNoNextLink(st)
               /\ st.slept = Backoff(n - 1)
               /\ st.invokes = page_start.invokes + n

\* the first attempt on the second page failed with "500": the run is over
\* with both pages in the list, and nothing was slept in that iteration
C6_Witness ==
    /\ crawl[1].pc = "done"
    /\ crawl[1].calls = << [ ok |-> FALSE, text |-> << "5", "0", "0" >> ] >>
    /\ crawl[1].visited_urls = << UrlA, UrlB >>
    /\ crawl[1].returned = << UrlA, UrlB >>
    /\ crawl[1].slept = << >>

(***************************************************************************)
(* Helpers of the two-run properties.  Run 2 is a second call with the     *)
(* arguments of run 1, for which every fetch and LLM call before the last  *)
(* page of run 1 went as in run 1; on that page the two runs differ.       *)
(***************************************************************************)
\* both runs have returned to their callers
BothReturned == crawl[1].pc = "done" /\ crawl[2].pc = "done"

\* what the caller of crawl_documentation gets: the list, or an exception
CallerSees(st) == << st.returned, st.raised >>

\* the last LLM call of the run failed (and the run is over: no retry left,
\* or an error that is not retried)
OracleFailed(st) ==
    /\ st.pc = "done"
    /\ Len(st.calls) > 0
    /\ ~st.calls[Len(st.calls)].ok

\* the last LLM call of the run answered with the sentinel
OracleSaidNoNextLink(st) ==
    /\ st.pc = "done"
    /\ Len(st.calls) > 0
    /\ st.calls[Len(st.calls)].ok
    /\ st.calls[Len(st.calls)].text \in SentinelAnswers

\* the sentinel occurs in the text, letter case ignored
HoldsSentinel(text) == Contains(Lower(text), Lower(NO_NEXT_LINK))

\* the last fetch of the run failed with a RequestException
FetchFailed(st) == st.fetches >= 1 /\ st.html = None

(***************************************************************************)
(* C7: take two runs that are identical up to page k, where in the first   *)
(* the LLM fails unrecoverably on page k (another error, or a rate limit   *)
(* on every attempt) and in the second it answers with the sentinel: both  *)
(* return the same URL list, and no exception reaches the caller.          *)
(***************************************************************************)
C7_FailureLooksLikeEnd ==
    /\ \A r \in Started : ~crawl[r].raised
    /\ ( BothReturned /\ OracleFailed(crawl[1]) /\ OracleSaidNoNextLink(crawl[2]) )
       => /\ CallerSees(crawl[1]) = CallerSees(crawl[2])
          /\ crawl[1].returned = page_start.visited_urls

\* run 1 got "500" from the LLM on its second page, run 2 got the sentinel
\* there: both returned the two pages
C7_Witness ==
    /\ BothReturned
    /\ OracleFailed(crawl[1])
    /\ crawl[1].calls[1].text \in OtherErrors
    /\ OracleSaidNoNextLink(crawl[2])
    /\ crawl[1].returned = << UrlA, UrlB >>
    /\ crawl[2].returned = << UrlA, UrlB >>

(***************************************************************************)
(* C8: if the fetch of current_url fails (network error or a status that   *)
(* is not 2xx), the crawl stops on the fetch error without retrying the    *)
(* fetch and without any LLM call for that page, and returns the visited   *)
(* list collected so far, which already includes the URL whose fetch       *)
(* failed as its last element.                                             *)
(***************************************************************************)
C8_FetchFailureStops ==
    \A r \in Started :
        FetchFailed(crawl[r])
        => /\ crawl[r].pc = "done"
           /\ Printed(crawl[r], "download_failed")
           /\ crawl[r].fetches = page_start.fetches + 1
           /\ crawl[r].calls = << >>
           /\ crawl[r].invokes = page_start.invokes
           /\ crawl[r].returned = crawl[r].visited_urls
           /\ crawl[r].visited_urls = page_start.visited_urls
           /\ crawl[r].visited_urls[Len(crawl[r].visited_urls)] = crawl[r].current_url
           /\ ~crawl[r].raised

\* the fetch of the second page failed: the run returned both pages
C8_Witness ==
    /\ FetchFailed(crawl[1])
    /\ crawl[1].pc = "done"
    /\ crawl[1].current_url = UrlB
    /\ crawl[1].returned = << UrlA, UrlB >>
    /\ crawl[1].fetches = 2
    /\ crawl[1].invokes = 1

(***************************************************************************)
(* C9: a crawl that stops because of a fetch failure is reported to the    *)
(* caller distinctly from a successful crawl: what crawl_documentation     *)
(* returns for a run whose last fetch failed differs from what it returns  *)
(* for a run with the same visited list whose last page yielded "no next   *)
(* link".                                                                  *)
(***************************************************************************)
C9_FetchFailureDistinct ==
    ( /\ BothReturned
      /\ FetchFailed(crawl[1])
      /\ OracleSaidNoNextLink(crawl[2])
      /\ crawl[1].visited_urls = crawl[2].visited_urls )
    => CallerSees(crawl[1]) /= CallerSees(crawl[2])

(***************************************************************************)
(* C10: for every LLM response, if the sentinel NO_NEXT_LINK occurs in it  *)
(* as a substring under case-insensitive comparison, the extraction result *)
(* is "no next link", whatever text surrounds it (also when the rest of    *)
(* the response looks like an href): the sentinel test comes before the    *)
(* response is treated as an href.                                         *)
(***************************************************************************)
C10_SentinelWins ==
    \A r \in Started :
        ( /\ Len(crawl[r].calls) > 0
          /\ crawl[r].calls[Len(crawl[r].calls)].ok
          /\ HoldsSentinel(crawl[r].calls[Len(crawl[r].calls)].text) )
        => /\ StoppedAsNoNextLink(crawl[r])
           /\ crawl[r].current_url = page_start.current_url

\* the LLM answered "/b#No_Next_Link" on the start page: no next link, the
\* run is over with the start page alone
C10_Witness ==
    /\ crawl[1].pc = "done"
    /\ crawl[1].calls =
          << [ ok |-> TRUE,
               text |-> << "/","b","#","N","o","_","N","e","x","t","_","L","i","n","k" >> ] >>
    /\ crawl[1].next_url = None
    /\ crawl[1].returned = << UrlA >>

(***************************************************************************)
(* Helpers of the properties of the response parsing.                      *)
(***************************************************************************)
\* the response has been parsed
Parsed == parse.pc \in { "parsed", "resolved" }

Quotes == { "\"", "'" }

\* nothing is left of the response once the whitespace and the quote
\* characters around it are stripped
EmptyOnceStripped(content) == StripChars(content, Whitespace \cup Quotes) = << >>

(***************************************************************************)
(* C11: for every response that is empty once the surrounding whitespace   *)
(* and quote characters are stripped (only spaces, only a pair of quotes,  *)
(* a quote inside quotes of the other kind), extract_next_link returns     *)
(* None: no URL is resolved.                                               *)
(***************************************************************************)
C11_EmptyIsNoNextLink ==
    ( Parsed /\ EmptyOnceStripped(parse.content) ) => parse.result = None

(***************************************************************************)
(* C12: the resolution is idempotent: for every href and every page URL,   *)
(* the URL u that extract_next_link returns, resolved and normalised       *)
(* again with u as the href and u as the page URL, is u.                   *)
(***************************************************************************)
C12_Idempotent ==
    parse.pc = "resolved" => parse.again = parse.result

(***************************************************************************)
(* Helpers of the normalisation property.                                  *)
(***************************************************************************)
\* the segments with every run of equal non-empty neighbours cut down to its
\* first segment: segment i stays unless it is non-empty and equal to
\* segment i - 1
CollapseRuns(parts) ==
    LET keep == { i \in 1..Len(parts) :
                    i = 1 \/ parts[i] = << >> \/ parts[i] /= parts[i - 1] }
    IN  [ k \in 1..Cardinality(keep) |->
            parts[CHOOSE i \in keep : Cardinality({ j \in keep : j <= i }) = k] ]

\* the components of a resolved URL, its path with the runs collapsed
Collapsed(p) == [ p EXCEPT !.path = Join(CollapseRuns(Split(p.path, "/")), "/") ]

\* url is the resolved URL p put together again with the collapsed path; if
\* p has a host, url reads back as these components
NormalizedAs(p, url) ==
    /\ url = urlunparse(Collapsed(p))
    /\ p.netloc /= << >> => urlparse(url, << >>) = Collapsed(p)

\* the URL urljoin makes of the response on the page
AbsoluteUrl(st) == urljoin(st.current_url, CleanAnswer(Strip(st.content)))

GuidesResult ==
    << "h","t","t","p","s",":","/","/","s","i","t","e","/","g","u","i","d","e","s","/","x" >>

(***************************************************************************)
(* C13: for every resolved URL, the URL returned is made of the resolved   *)
(* URL's scheme, host, params, query and fragment, unchanged, and of its   *)
(* path with each run of immediately repeated identical non-empty          *)
(* segments collapsed to one segment; a segment repeated with another      *)
(* segment in between stays (href a on http://s/a/b/ gives                 *)
(* http://s/a/b/a), and href /guides/guides/x on https://site/guides/      *)
(* gives https://site/guides/x.                                            *)
(***************************************************************************)
C13_CollapsesAdjacent ==
    ( Parsed /\ Truthy(parse.result) )
    => /\ NormalizedAs(urlparse(AbsoluteUrl(parse), << >>), parse.result)
       /\ ( parse.content = << "a" >> /\ parse.current_url = UrlDir )
          => parse.result = UrlDir \o << "a" >>
       /\ ( parse.content = GuidesHref /\ parse.current_url = GuidesBase )
          => parse.result = GuidesResult

\* the documented example has been parsed: the repeated segment is gone
C13_Witness ==
    /\ parse.pc = "parsed"
    /\ parse.content = GuidesHref
    /\ parse.current_url = GuidesBase
    /\ parse.result = GuidesResult

(***************************************************************************)
(* Helpers of the properties of the visited list.                          *)
(***************************************************************************)
\* the outcome of the latest LLM call of the run
LastCall(st) == st.calls[Len(st.calls)]

\* the page visited last
LastVisited(st) == st.visited_urls[Len(st.visited_urls)]

\* between two iterations: the URL the next iteration starts with is the
\* href the LLM returned for the page visited last, resolved on that page
NextIsResolvedHref(st) ==
    ( st.pc = "loop" /\ Len(st.visited_urls) > 0 )
    => /\ Len(st.calls) > 0
       /\ LastCall(st).ok
       /\ st.current_url = ResolveAnswer(CleanAnswer(Strip(LastCall(st).text)),
                                         LastVisited(st))

\* the LLM answered the sentinel: the run is over, stopped as complete, the
\* page the answer was for being the last of the list returned
SentinelEndsRun(st) ==
    ( /\ Len(st.calls) > 0
      /\ LastCall(st).ok
      /\ HoldsSentinel(LastCall(st).text) )
    => /\ st.pc = "done"
       /\ Printed(st, "complete")
       /\ st.returned = st.visited_urls
       /\ LastVisited(st) = page_start.current_url

\* a step of run r changes the visited list only by appending the URL the
\* iteration starts with
AppendsCurrent(r) ==
    crawl'[r].visited_urls /= crawl[r].visited_urls
    => /\ crawl[r].pc = "loop"
       /\ crawl'[r].visited_urls = Append(crawl[r].visited_urls, crawl[r].current_url)

(***************************************************************************)
(* C14: in every run the first visited URL is the start URL, and each      *)
(* later one is the href the LLM returned for the page visited before it,  *)
(* resolved on that page: between two iterations current_url is that       *)
(* resolved href, and the visited list changes only by appending           *)
(* current_url.  When the LLM answers the sentinel for a page, the run     *)
(* ends stopped as complete with that page as the last element (start A,   *)
(* A yields an href that resolves to B, B yields the sentinel: the list    *)
(* returned is [A, B]).                                                    *)
(***************************************************************************)
C14_VisitedChain ==
    /\ [] ( \A r \in Started :
               /\ Len(crawl[r].visited_urls) > 0
                  => crawl[r].visited_urls[1] = crawl[r].start_url
               /\ NextIsResolvedHref(crawl[r])
               /\ SentinelEndsRun(crawl[r]) )
    /\ [][ \A r \in Started : AppendsCurrent(r) ]_vars

\* A answered "/b", B answered NO_NEXT_LINK: [A, B] returned, complete
C14_Witness ==
    /\ crawl[1].pc = "done"
    /\ crawl[1].start_url = UrlA
    /\ crawl[1].calls = << [ ok |-> TRUE, text |-> NO_NEXT_LINK ] >>
    /\ Printed(crawl[1], "complete")
    /\ crawl[1].returned = << UrlA, UrlB >>

(***************************************************************************)
(* Helpers of the stop reason property.                                    *)
(***************************************************************************)
\* the diagnostics that name why the run stopped
StopReasons == { "cycle", "download_failed", "complete", "limit" }

\* the stop reasons the run reported
Reported(st) == { tag \in StopReasons : Printed(st, tag) }

\* an ordinary run: a start URL and room for at least one page
Ordinary(st) == st.start_url /= << >> /\ st.max_pages >= 1

(***************************************************************************)
(* C15: every run (with a start URL and max_pages >= 1) ends with exactly  *)
(* one stop reason reported, and the page limit is reported if and only    *)
(* if the loop was left through the while test with len(visited_urls) >=   *)
(* max_pages and a next URL pending: a run that stopped on no next link,   *)
(* on a failed fetch or on a cycle is never reported as having reached     *)
(* the limit, also when len(visited_urls) = max_pages.                     *)
(***************************************************************************)
C15_OneStopReason ==
    \A r \in Started :
        ( crawl[r].pc = "done" /\ Ordinary(crawl[r]) )
        => /\ Cardinality(Reported(crawl[r])) = 1
           /\ Printed(crawl[r], "limit") <=> StoppedByCap(crawl[r])

(***************************************************************************)
(* Helpers of the termination property.                                    *)
(***************************************************************************)
\* the run has made no more fetches than max_pages and no more LLM calls
\* than max_pages * max_retries
WithinBudget(st) ==
    /\ st.fetches <= st.max_pages
    /\ st.invokes <= st.max_pages * max_retries

(***************************************************************************)
(* C16: for every max_pages and every behaviour of the fetches and of the  *)
(* LLM whose calls return, the run terminates: it reaches the return of    *)
(* crawl_documentation, which returns the visited list, and on the way it  *)
(* makes at most max_pages fetches and at most max_pages * max_retries     *)
(* LLM calls.                                                              *)
(***************************************************************************)
C16_Terminates ==
    /\ [] ( \A r \in Started :
               /\ WithinBudget(crawl[r])
               /\ crawl[r].pc = "done" /\ ~crawl[r].raised
                  => crawl[r].returned = crawl[r].visited_urls )
    /\ <> ( crawl[1].pc = "done" )

\* a run with max_pages = 2 that used all its fetches and all its LLM calls
C16_Witness ==
    /\ crawl[1].pc = "done"
    /\ crawl[1].max_pages = 2
    /\ crawl[1].fetches = 2
    /\ crawl[1].invokes = 2 * max_retries

(***************************************************************************)
(* Helpers of the properties of the URL file and of the conversions.       *)
(***************************************************************************)
\* process_documentation has read URLs from the file
HasReadUrls == Len(pipeline.urls_to_convert) > 0

(***************************************************************************)
(* C17: process_documentation(base_url, output_dir, urls_file) crawls the  *)
(* documentation from base_url before it reads the URL file: whenever it   *)
(* has read the URLs, it has called crawl_documentation, once, with        *)
(* base_url.                                                               *)
(***************************************************************************)
C17_CrawlsBeforeReading ==
    HasReadUrls => pipeline.crawl_calls = << pipeline.base_url >>

(***************************************************************************)
(* C18: the URL file round-trips: once the crawler's main has written it,  *)
(* the file holds exactly the visited URLs, in visited order, one per      *)
(* line, and nothing of what it held before; read back the way             *)
(* process_documentation reads it (each line stripped, empty lines         *)
(* dropped) it gives exactly the visited sequence.                         *)
(***************************************************************************)
C18_FileRoundTrips ==
    pipeline.pc = "crawled"
    => /\ pipeline.file = WriteLines(pipeline.all_urls)
       /\ ReadLines(pipeline.file) = pipeline.all_urls

(***************************************************************************)
(* C19: process_documentation calls the conversion exactly once for each   *)
(* URL of the list, in list order: the calls made so far are those for     *)
(* the first URLs of the list, and the two counters add up to their        *)
(* number; a conversion that failed does not keep the later URLs from      *)
(* being converted: when process_documentation is over, every URL read     *)
(* has been handed to the conversion and successful_conversions +          *)
(* failed_conversions is the number of URLs read.                          *)
(***************************************************************************)
C19_EachUrlConverted ==
    /\ Len(pipeline.conversions) <= Len(pipeline.urls_to_convert)
    /\ \A i \in 1..Len(pipeline.conversions) :
          pipeline.conversions[i].url = pipeline.urls_to_convert[i]
    /\ pipeline.successful_conversions + pipeline.failed_conversions
          = Len(pipeline.conversions)
    /\ pipeline.pc = "done"
       => /\ Len(pipeline.conversions) = Len(pipeline.urls_to_convert)
          /\ pipeline.successful_conversions + pipeline.failed_conversions
                = Len(pipeline.urls_to_convert)

(***************************************************************************)
(* Helpers of the order of an iteration.                                   *)
(***************************************************************************)
\* no URL is twice in the list
NoRepeats(urls) ==
    \A i, j \in 1..Len(urls) : urls[i] = urls[j] => i = j

\* where the run is, and what has been done for the page it is on: in the
\* fetch the page is on the list and is the one not fetched yet; in the LLM
\* call the page is on the list and its fetch returned a body; between two
\* iterations and after the return every page of the list has been fetched
InOrder(st) ==
    /\ st.pc \in { "loop", "fetch", "invoke", "done" }
    /\ NoRepeats(st.visited_urls)
    /\ st.pc = "fetch"
       => /\ Len(st.visited_urls) = st.fetches + 1
          /\ LastVisited(st) = st.current_url
          /\ st.calls = << >>
    /\ st.pc = "invoke"
       => /\ Len(st.visited_urls) = st.fetches
          /\ LastVisited(st) = st.current_url
          /\ Truthy(st.html)
    /\ st.pc = "loop" => Len(st.visited_urls) = st.fetches
    /\ st.pc = "done"
       => /\ st.returned = st.visited_urls
          /\ st.fetches = Len(st.returned)

\* a step of run r: the cycle check and the append come first and lead to
\* the fetch of the page appended; the k-th fetch is the one call of
\* download_html for the k-th URL of the list; the LLM is called only
\* between that fetch and the next iteration
StepsInOrder(r) ==
    /\ crawl[r].pc = "loop" /\ crawl'[r].pc = "fetch"
       => /\ ~AlreadyVisited(crawl[r])
          /\ crawl'[r].visited_urls = Append(crawl[r].visited_urls, crawl[r].current_url)
          /\ crawl'[r].current_url = crawl[r].current_url
    /\ crawl[r].pc = "loop" /\ crawl'[r].pc /= "fetch"
       => /\ crawl'[r].pc \in { "loop", "done" }
          /\ crawl'[r].visited_urls = crawl[r].visited_urls
    /\ crawl[r].pc = "fetch" => crawl'[r].pc \in { "fetch", "invoke", "done" }
    /\ crawl[r].pc = "invoke" => crawl'[r].pc \in { "invoke", "loop", "done" }
    /\ crawl'[r].fetches /= crawl[r].fetches
       => /\ crawl[r].pc = "fetch"
          /\ crawl'[r].fetches = crawl[r].fetches + 1
          /\ crawl'[r].visited_urls = crawl[r].visited_urls
          /\ crawl[r].visited_urls[crawl'[r].fetches] = crawl[r].current_url
    /\ crawl'[r].invokes /= crawl[r].invokes
       => /\ crawl[r].pc = "invoke"
          /\ crawl'[r].invokes = crawl[r].invokes + 1
          /\ crawl'[r].fetches = crawl[r].fetches

(***************************************************************************)
(* C20: an iteration goes through the cycle check, the append of           *)
(* current_url to visited_urls, the fetch of that URL and the LLM          *)
(* attempts, in this order; a run is at one place at a time, so at most    *)
(* one fetch or LLM call is in flight; the LLM is called for a page only   *)
(* after the fetch of that page returned a body; and when the run returns, *)
(* the number of fetches made is len(visited_urls), the k-th fetch having  *)
(* been the only one for the k-th URL of the list, which holds no URL      *)
(* twice.                                                                  *)
(***************************************************************************)
C20_IterationOrder ==
    /\ [] ( \A r \in Started : InOrder(crawl[r]) )
    /\ [][ \A r \in Started : StepsInOrder(r) ]_vars

\* two pages visited and returned, each fetched once, the LLM asked about
\* both, the second time after a rate-limited attempt
C20_Witness ==
    /\ crawl[1].pc = "done"
    /\ crawl[1].returned = << UrlA, UrlB >>
    /\ crawl[1].fetches = 2
    /\ crawl[1].invokes = 3
    /\ Len(crawl[1].calls) = 2
    /\ ~crawl[1].calls[1].ok

(***************************************************************************)
(* Helpers of the truncation property.                                     *)
(***************************************************************************)
\* the n characters of t from position from + 1 on are those of s from
\* position at + 1 on
SameRun(t, from, s, at, n) == \A i \in 1..n : t[from + i] = s[at + i]

\* t is the first n characters of html, then the marker, then the last n
\* characters of html, position by position
HeadMarkerTail(t, html, n) ==
    /\ Len(t) = n + Len(TruncationMarker) + n
    /\ SameRun(t, 0, html, 0, n)
    /\ SameRun(t, n, TruncationMarker, 0, Len(TruncationMarker))
    /\ SameRun(t, n + Len(TruncationMarker), html, Len(html) - n, n)

(***************************************************************************)
(* C21: a page content of at most 30000 characters (30000 included) goes   *)
(* into the prompt unchanged; of a longer one the prompt gets exactly the  *)
(* first 15000 characters (half of 30000), then the marker                 *)
(* "[... middle content truncated ...]" between two blank lines, then the  *)
(* last 15000 characters.                                                  *)
(***************************************************************************)
C21_TruncatesMiddle ==
    parse.pc = "prompt"
    => IF Len(parse.html) <= max_chars
       THEN parse.truncated_html = parse.html
       ELSE HeadMarkerTail(parse.truncated_html, parse.html, max_chars \div 2)

\* a page of 30001 characters has been cut, one of 30000 has not
C21_Witness ==
    /\ parse.pc = "prompt"
    /\ Len(parse.html) = max_chars + 1
    /\ Len(parse.truncated_html) = max_chars + Len(TruncationMarker)
    /\ parse.html[1] /= parse.html[2]

(***************************************************************************)
(* Helpers of the empty body property.                                     *)
(***************************************************************************)
\* the last fetch of the run returned a response with an empty body
EmptyBody(st) == st.fetches >= 1 /\ st.html = << >>

\* the run stopped on the page it had just put on the list, as after a
\* fetch that failed, without a call of the LLM for that page
StoppedAtFetch(st) ==
    /\ st.pc = "done"
    /\ Printed(st, "download_failed")
    /\ ~Printed(st, "complete")
    /\ LastVisited(st) = st.current_url
    /\ st.returned = st.visited_urls
    /\ st.calls = << >>
    /\ st.invokes <= (Len(st.visited_urls) - 1) * max_retries

(***************************************************************************)
(* C22: a fetch that returns a response with an empty body is handled as   *)
(* a fetch that failed: the crawl stops, the URL of the page is the last   *)
(* of visited_urls, and the LLM is not called for it; of two runs that     *)
(* went the same way up to that fetch, the one that got the empty body     *)
(* ends exactly as the one whose fetch failed (same list returned, same    *)
(* diagnostics, same calls made).                                          *)
(***************************************************************************)
C22_EmptyBodyIsFailure ==
    /\ \A r \in Started : EmptyBody(crawl[r]) => StoppedAtFetch(crawl[r])
    /\ \A r1, r2 \in Started :
          ( EmptyBody(crawl[r1]) /\ FetchFailed(crawl[r2]) /\ crawl[r2].pc = "done" )
          => crawl[r2] = [ crawl[r1] EXCEPT !.html = None ]

\* the second page came with an empty body in run 1 and could not be
\* fetched in its twin
C22_Witness ==
    /\ EmptyBody(crawl[1])
    /\ crawl[1].returned = << UrlA, UrlB >>
    /\ crawl[1].invokes = 1
    /\ FetchFailed(crawl[2])
    /\ crawl[2].pc = "done"

(***************************************************************************)
(* Helpers of the file name property.                                      *)
(***************************************************************************)
\* the output files written so far: convert_url_to_markdown opens its
\* output file with "w", so a second conversion to a name replaces the file
FilesCreated(st) ==
    { st.conversions[i].filename :
        i \in { j \in 1..Len(st.conversions) : st.conversions[j].success } }

(***************************************************************************)
(* C23: sanitize_filename gives each URL of the list a file name of its    *)
(* own: two conversions of different URLs never have the same output       *)
(* file, so no conversion overwrites the output of another, and the        *)
(* number of files created is successful_conversions (the summary prints   *)
(* it as "Total files created").                                           *)
(***************************************************************************)
C23_UniqueFilenames ==
    /\ \A i, j \in 1..Len(pipeline.conversions) :
          pipeline.conversions[i].url /= pipeline.conversions[j].url
          => pipeline.conversions[i].filename /= pipeline.conversions[j].filename
    /\ Cardinality(FilesCreated(pipeline)) = pipeline.successful_conversions
====
